---- MODULE Spec2Model ----
(***************************************************************************)
(* The calculator of src/calculator.py: one display buffer (display_var),  *)
(* the button callbacks that edit it, and the evaluator the callbacks "=", *)
(* "+/-" and "%" run on it (_safe_evaluate, _format_number).               *)
(*                                                                         *)
(* Texts are sequences of one-character strings.  Python's float is a      *)
(* binary floating-point number: the model keeps its structure (a          *)
(* significand of Prec bits, a least quantum, a largest finite value,      *)
(* round-half-even, inf and nan) with small parameters, so that rounding   *)
(* and overflow happen on short texts.                                     *)
(***************************************************************************)
EXTENDS Integers, Sequences, FiniteSets, TLC

(***************************************************************************)
(* Bounds.                                                                 *)
(***************************************************************************)
\* longest text typed where every callback is tried
MaxLen == 4
\* longest text typed where "=" is the only evaluating callback tried
MaxText == 5
\* bits of a float's significand (binary64: 53)
Prec == 5
\* the least positive float is 2^-FracBits (binary64: 1074)
FracBits == 6
\* the largest finite float is (2^Prec - 1) * 2^TopShift least quanta
TopShift == 8

(***************************************************************************)
(* float.  A finite value is a whole number q of least quanta (its value   *)
(* is q / Quantum); the sign of a zero is not kept, since nothing in the   *)
(* program reads it (is_integer, int, and the zero test of a division      *)
(* treat 0.0 and -0.0 alike).                                              *)
(***************************************************************************)
Quantum == 2 ^ FracBits

MaxQ == (2 ^ Prec - 1) * 2 ^ TopShift

Fin(q) == [k |-> "fin", q |-> q]

Inf(s) == [k |-> "inf", q |-> s]

NaN == [k |-> "nan", q |-> 0]

Abs(i) == IF i < 0 THEN -i ELSE i

Sgn(i) == IF i < 0 THEN -1 ELSE 1

\* the least s with t \div 2^s < 2^Prec
RECURSIVE Shift(_)
Shift(t) == IF t < 2 ^ Prec THEN 0 ELSE 1 + Shift(t \div 2)

\* n/d least quanta (n >= 0, d > 0) rounded to the nearest float, ties to
\* the even significand; a result above MaxQ has overflowed
RoundQ(n, d) ==
    LET t == n \div d
        r == n % d
        sh == Shift(t)
        m == t \div (2 ^ sh)
        low == t % (2 ^ sh)
        half == IF sh = 0 THEN 0 ELSE 2 ^ (sh - 1)
        up == IF sh = 0
              THEN 2 * r > d \/ (2 * r = d /\ m % 2 = 1)
              ELSE low > half \/ (low = half /\ (r > 0 \/ m % 2 = 1))
    IN (IF up THEN m + 1 ELSE m) * (2 ^ sh)

\* the float nearest to sign * n/d least quanta; overflow gives an infinity
Rounded(sign, n, d) ==
    LET q == RoundQ(n, d)
    IN IF q > MaxQ THEN Inf(sign) ELSE Fin(sign * q)

\* operator.neg
neg(a) ==
    CASE a.k = "fin" -> Fin(-a.q)
      [] a.k = "inf" -> Inf(-a.q)
      [] OTHER -> NaN

\* operator.add
add(a, b) ==
    CASE a.k = "nan" \/ b.k = "nan" -> NaN
      [] a.k = "inf" /\ b.k = "inf" -> IF a.q = b.q THEN a ELSE NaN
      [] a.k = "inf" -> a
      [] b.k = "inf" -> b
      [] OTHER -> Rounded(Sgn(a.q + b.q), Abs(a.q + b.q), 1)

\* operator.sub
sub(a, b) == add(a, neg(b))

\* operator.mul
mul(a, b) ==
    CASE a.k = "nan" \/ b.k = "nan" -> NaN
      [] a.k = "inf" \/ b.k = "inf" ->
            IF a.q = 0 \/ b.q = 0 THEN NaN ELSE Inf(Sgn(a.q) * Sgn(b.q))
      [] OTHER -> Rounded(Sgn(a.q) * Sgn(b.q), Abs(a.q) * Abs(b.q), Quantum)

IsZero(a) == a.k = "fin" /\ a.q = 0

\* operator.truediv on a divisor that is not zero (a zero divisor raises
\* ZeroDivisionError, whatever the dividend)
truediv(a, b) ==
    CASE a.k = "nan" \/ b.k = "nan" -> NaN
      [] a.k = "inf" /\ b.k = "inf" -> NaN
      [] a.k = "inf" -> Inf(a.q * Sgn(b.q))
      [] b.k = "inf" -> Fin(0)
      [] OTHER -> Rounded(Sgn(a.q) * Sgn(b.q), Abs(a.q) * Quantum, Abs(b.q))

\* float.is_integer
is_integer(a) == a.k = "fin" /\ a.q % Quantum = 0

(***************************************************************************)
(* Texts and the values of literals.                                       *)
(***************************************************************************)
Digits == <<"0", "1", "2", "3", "4", "5", "6", "7", "8", "9">>

IsDigit(c) == \E d \in 1..10 : Digits[d] = c

\* the letters a text can hold: those of True and of the inf and nan that
\* str(float) writes
IsLetter(c) == c \in {"T", "r", "u", "e", "i", "n", "f", "a"}

DigitVal(c) == (CHOOSE d \in 1..10 : Digits[d] = c) - 1

\* int(text) of a run of digits
RECURSIVE IntOf(_)
IntOf(ds) ==
    IF ds = <<>> THEN 0
    ELSE 10 * IntOf(SubSeq(ds, 1, Len(ds) - 1)) + DigitVal(ds[Len(ds)])

\* str(n) of an int n >= 0
RECURSIVE StrNat(_)
StrNat(n) ==
    IF n < 10 THEN <<Digits[n + 1]>>
    ELSE StrNat(n \div 10) \o <<Digits[(n % 10) + 1]>>

\* str(n) of an int
StrInt(n) == IF n < 0 THEN <<"-">> \o StrNat(-n) ELSE StrNat(n)

\* The values an ast.Constant holds.
PyInt(n) == [ty |-> "int", n |-> n, f |-> Fin(0)]

PyFloat(f) == [ty |-> "float", n |-> 0, f |-> f]

PyBool(n) == [ty |-> "bool", n |-> n, f |-> Fin(0)]

PyEllipsis == [ty |-> "ellipsis", n |-> 0, f |-> Fin(0)]

\* the value of a float literal with digits ds (integer and fractional part
\* together) of which nfrac are fractional: the nearest float, inf when it
\* is too large
FloatLiteral(ds, nfrac) == Rounded(1, IntOf(ds) * Quantum, 10 ^ nfrac)

(***************************************************************************)
(* Python's tokenizer on the one line ast.parse is given.  A token is      *)
(* [t, v]: t its kind, v the value of a NUMBER.                            *)
(***************************************************************************)
Tok(t) == [t |-> t, v |-> PyEllipsis]

NumTok(v) == [t |-> "NUMBER", v |-> v]

At(s, i) == IF i >= 1 /\ i <= Len(s) THEN s[i] ELSE ""

\* the first position from i on that holds no digit
RECURSIVE DigitsEnd(_, _)
DigitsEnd(s, i) == IF IsDigit(At(s, i)) THEN DigitsEnd(s, i + 1) ELSE i

\* the first position from i on that holds neither a letter nor a digit
RECURSIVE NameEnd(_, _)
NameEnd(s, i) ==
    IF IsLetter(At(s, i)) \/ IsDigit(At(s, i)) THEN NameEnd(s, i + 1) ELSE i

Keywords == {<<"i", "n">>, <<"i", "f">>}

\* the NUMBER that starts at i (a digit, or a point before a digit):
\* [ok, next, v].  A decimal integer with a leading zero that is not all
\* zeros is an error, and so is a letter right after a number.  An exponent
\* (1e5) cannot occur: the only e a text holds is the one of True.
ScanNumber(s, i) ==
    LET j == DigitsEnd(s, i)
        isFloat == At(s, j) = "."
        k == IF isFloat THEN DigitsEnd(s, j + 1) ELSE j
        ipart == SubSeq(s, i, j - 1)
        fpart == IF isFloat THEN SubSeq(s, j + 1, k - 1) ELSE <<>>
        leadingZeros == ~isFloat /\ Len(ipart) > 1 /\ ipart[1] = "0"
                        /\ IntOf(ipart) # 0
    IN IF leadingZeros \/ IsLetter(At(s, k))
       THEN [ok |-> FALSE, next |-> k, v |-> PyEllipsis]
       ELSE [ok |-> TRUE, next |-> k,
             v |-> IF isFloat
                   THEN PyFloat(FloatLiteral(ipart \o fpart, Len(fpart)))
                   ELSE PyInt(IntOf(ipart))]

\* the tokens of s from position i on; an ERRORTOKEN ends them where the
\* tokenizer raises SyntaxError
RECURSIVE Tokens(_, _)
Tokens(s, i) ==
    LET c == At(s, i)
        c2 == At(s, i + 1)
    IN CASE i > Len(s) -> <<>>
         [] c = " " -> Tokens(s, i + 1)
         [] IsDigit(c) \/ (c = "." /\ IsDigit(c2)) ->
               LET n == ScanNumber(s, i)
               IN IF n.ok THEN <<NumTok(n.v)>> \o Tokens(s, n.next)
                  ELSE <<Tok("ERRORTOKEN")>>
         [] c = "." ->
               IF c2 = "." /\ At(s, i + 2) = "."
               THEN <<Tok("...")>> \o Tokens(s, i + 3)
               ELSE <<Tok(".")>> \o Tokens(s, i + 1)
         [] IsLetter(c) ->
               LET e == NameEnd(s, i)
                   w == SubSeq(s, i, e - 1)
               IN <<Tok(IF w \in Keywords THEN "KEYWORD"
                        ELSE IF w = <<"T", "r", "u", "e">> THEN "True"
                        ELSE "NAME")>> \o Tokens(s, e)
         [] c \in {"*", "/"} /\ c2 = c ->
               <<Tok(IF c = "*" THEN "**" ELSE "//")>> \o Tokens(s, i + 2)
         [] c \in {"+", "-", "*", "/", "(", ")"} ->
               <<Tok(c)>> \o Tokens(s, i + 1)
         [] OTHER -> <<Tok("ERRORTOKEN")>>

\* the token stream of the whole text: a line that starts with a blank is
\* an unexpected indent (IndentationError, a SyntaxError)
Tokenize(s) ==
    IF At(s, 1) = " " THEN <<Tok("ERRORTOKEN")>> ELSE Tokens(s, 1)

(***************************************************************************)
(* ast.parse(expression, mode="eval"): Python's expression grammar on the  *)
(* tokens above.  A parse is [ok, pos, node]: pos the first token not      *)
(* consumed.  The nodes _eval tells apart are kept in full; of a Name,     *)
(* Call, Attribute or Tuple, which _eval refuses without looking inside,   *)
(* only the type is kept.                                                  *)
(***************************************************************************)
Constant(v) == [type |-> "Constant", value |-> v]

UnaryOp(op, operand) == [type |-> "UnaryOp", op |-> op, operand |-> operand]

BinOp(left, op, right) ==
    [type |-> "BinOp", op |-> op, left |-> left, right |-> right]

Node(type) == [type |-> type]

Parsed(pos, node) == [ok |-> TRUE, pos |-> pos, node |-> node]

NoParse == [ok |-> FALSE, pos |-> 0, node |-> Node("none")]

Kind(toks, i) == IF i >= 1 /\ i <= Len(toks) THEN toks[i].t ELSE "ENDMARKER"

UnaryOps == [p \in {"+", "-"} |-> IF p = "+" THEN "UAdd" ELSE "USub"]

SumOps == [p \in {"+", "-"} |-> IF p = "+" THEN "Add" ELSE "Sub"]

TermOps ==
    [p \in {"*", "/", "//"} |->
        IF p = "*" THEN "Mult" ELSE IF p = "/" THEN "Div" ELSE "FloorDiv"]

\* a parser that knows no bracketed group
GroupRefused(toks, e) == NoParse

\* a '(' expression that must be closed by ')': the group's node
Group(toks, e) ==
    IF e.ok /\ Kind(toks, e.pos) = ")" THEN Parsed(e.pos + 1, e.node)
    ELSE NoParse

\* the one argument of a call, which ')' must follow
CallWith(toks, e) ==
    IF e.ok /\ Kind(toks, e.pos) = ")" THEN Parsed(e.pos + 1, Node("Call"))
    ELSE NoParse

\* op applied to the operand parsed
MkUnary(op, f) ==
    IF f.ok THEN Parsed(f.pos, UnaryOp(op, f.node)) ELSE NoParse

\* left op right, right being the operand parsed after the operator
MkBin(l, op, r) ==
    IF r.ok THEN Parsed(r.pos, BinOp(l.node, op, r.node)) ELSE NoParse

RECURSIVE ParseSum(_, _), SumRest(_, _), ParseTerm(_, _), TermRest(_, _)
RECURSIVE ParseFactor(_, _), ParsePower(_, _), ParsePrimary(_, _)
RECURSIVE PrimaryRest(_, _), ParseAtom(_, _), ParseArgs(_, _)

\* atom: NAME | 'True' | NUMBER | '...' | '(' expression ')' | '(' ')'
ParseAtom(toks, i) ==
    LET t == Kind(toks, i)
    IN CASE t = "NUMBER" -> Parsed(i + 1, Constant(toks[i].v))
         [] t = "True" -> Parsed(i + 1, Constant(PyBool(1)))
         [] t = "..." -> Parsed(i + 1, Constant(PyEllipsis))
         [] t = "NAME" -> Parsed(i + 1, Node("Name"))
         [] t = "(" ->
               IF Kind(toks, i + 1) = ")" THEN Parsed(i + 2, Node("Tuple"))
               ELSE Group(toks, ParseSum(toks, i + 1))
         [] OTHER -> NoParse

\* the arguments of a call, after its '(' and up to its ')': none, or one
\* of expression, '*' expression, '**' expression (more need a comma)
ParseArgs(toks, i) ==
    LET t == Kind(toks, i)
    IN IF t = ")" THEN Parsed(i + 1, Node("Call"))
       ELSE CallWith(toks,
                     ParseSum(toks, IF t \in {"*", "**"} THEN i + 1 ELSE i))

\* primary: primary '.' NAME | primary '(' [arguments] ')' | atom
\* (p is the primary parsed so far)
PrimaryRest(toks, p) ==
    LET t == IF p.ok THEN Kind(toks, p.pos) ELSE "none"
    IN CASE ~p.ok -> NoParse
         [] t = "." ->
               IF Kind(toks, p.pos + 1) = "NAME"
               THEN PrimaryRest(toks, Parsed(p.pos + 2, Node("Attribute")))
               ELSE NoParse
         [] t = "(" -> PrimaryRest(toks, ParseArgs(toks, p.pos + 1))
         [] OTHER -> p

ParsePrimary(toks, i) == PrimaryRest(toks, ParseAtom(toks, i))

\* power: primary '**' factor | primary  (p is the primary parsed)
PowerRest(toks, p) ==
    IF p.ok /\ Kind(toks, p.pos) = "**"
    THEN MkBin(p, "Pow", ParseFactor(toks, p.pos + 1))
    ELSE p

ParsePower(toks, i) == PowerRest(toks, ParsePrimary(toks, i))

\* factor: '+' factor | '-' factor | power
ParseFactor(toks, i) ==
    LET t == Kind(toks, i)
    IN IF t \in DOMAIN UnaryOps
       THEN MkUnary(UnaryOps[t], ParseFactor(toks, i + 1))
       ELSE ParsePower(toks, i)

\* term: term '*' factor | term '/' factor | term '//' factor | factor
\* (l is the term parsed so far)
TermRest(toks, l) ==
    LET t == IF l.ok THEN Kind(toks, l.pos) ELSE "none"
    IN IF l.ok /\ t \in DOMAIN TermOps
       THEN TermRest(toks, MkBin(l, TermOps[t], ParseFactor(toks, l.pos + 1)))
       ELSE l

ParseTerm(toks, i) == TermRest(toks, ParseFactor(toks, i))

\* a sum that groups to the right: term '+' sum | term '-' sum | term
SumRestRight(toks, l) ==
    LET t == IF l.ok THEN Kind(toks, l.pos) ELSE "none"
    IN IF l.ok /\ t \in DOMAIN SumOps
       THEN MkBin(l, SumOps[t], ParseSum(toks, l.pos + 1))
       ELSE l

\* sum: sum '+' term | sum '-' term | term  (l is the sum parsed so far)
SumRest(toks, l) ==
    LET t == IF l.ok THEN Kind(toks, l.pos) ELSE "none"
    IN IF l.ok /\ t \in DOMAIN SumOps
       THEN SumRest(toks, MkBin(l, SumOps[t], ParseTerm(toks, l.pos + 1)))
       ELSE l

ParseSum(toks, i) == SumRest(toks, ParseTerm(toks, i))

\* the whole token stream must be one expression
Whole(toks, e) == IF e.ok /\ e.pos = Len(toks) + 1 THEN e ELSE NoParse

\* ast.parse(expression, mode="eval"): the body of the ast.Expression, or
\* no parse where it raises SyntaxError
ParseTokens(toks) == Whole(toks, ParseSum(toks, 1))

ast_parse(expression) == ParseTokens(Tokenize(expression))

(***************************************************************************)
(* _safe_evaluate.  What an evaluation gives is [exc, msg, v]: exc the     *)
(* exception raised ("" when it returns), msg the exception's message, v   *)
(* the float returned.                                                     *)
(***************************************************************************)
Returns(v) == [exc |-> "", msg |-> "", v |-> v]

ValueError(msg) == [exc |-> "ValueError", msg |-> msg, v |-> NaN]

OverflowError ==
    [exc |-> "OverflowError", msg |-> "int too large to convert to float",
     v |-> NaN]

\* float(node.value) of an int, a bool or a float: an int rounds to the
\* nearest float, and one too large for any raises OverflowError
float(value) ==
    IF value.ty = "float" THEN Returns(value.f)
    ELSE LET f == Rounded(1, value.n * Quantum, 1)
         IN IF f.k = "inf" THEN OverflowError ELSE Returns(f)

\* the unary operator applied, once the operand is evaluated
EvalUnary(op, operand) ==
    IF operand.exc # "" THEN operand
    ELSE Returns(IF op = "USub" THEN neg(operand.v) ELSE operand.v)

\* the binary operator applied, once both operands are evaluated (the left
\* one first: its exception is the one raised); a ZeroDivisionError
\* becomes the ValueError "Cannot divide by zero"
EvalBinary(op, left, right) ==
    CASE left.exc # "" -> left
      [] right.exc # "" -> right
      [] op = "Add" -> Returns(add(left.v, right.v))
      [] op = "Sub" -> Returns(sub(left.v, right.v))
      [] op = "Mult" -> Returns(mul(left.v, right.v))
      [] OTHER ->
            IF IsZero(right.v) THEN ValueError("Cannot divide by zero")
            ELSE Returns(truediv(left.v, right.v))

RECURSIVE _eval(_)
_eval(node) ==
    CASE node.type = "Constant" ->
            IF node.value.ty \in {"int", "bool", "float"}
            THEN float(node.value)
            ELSE ValueError("Only numbers allowed")
      [] node.type = "UnaryOp" /\ node.op \in {"UAdd", "USub"} ->
            EvalUnary(node.op, _eval(node.operand))
      [] node.type = "BinOp" /\ node.op \in {"Add", "Sub", "Mult", "Div"} ->
            EvalBinary(node.op, _eval(node.left), _eval(node.right))
      [] OTHER -> ValueError("Invalid expression")

\* the tree evaluated, or the SyntaxError turned into a ValueError
EvalParsed(node) ==
    IF ~node.ok THEN ValueError("Invalid expression") ELSE _eval(node.node)

_safe_evaluate(expression) == EvalParsed(ast_parse(expression))

(***************************************************************************)
(* _format_number, with str(int) and str(float).                           *)
(***************************************************************************)
\* n written with exactly w digits (n < 10^w)
RECURSIVE Padded(_, _)
Padded(n, w) ==
    IF w = 0 THEN <<>> ELSE Padded(n \div 10, w - 1) \o <<Digits[(n % 10) + 1]>>

\* the decimal c / 10^f nearest to q/Quantum (q > 0) among those the float
\* q is the nearest float to, or -1 when no decimal of f fractional digits
\* reads back as q
RoundTrip(q, f) ==
    LET lo == (q * 10 ^ f) \div Quantum
        hi == lo + 1
        okLo == RoundQ(lo * Quantum, 10 ^ f) = q
        okHi == RoundQ(hi * Quantum, 10 ^ f) = q
        dLo == q * 10 ^ f - lo * Quantum
        dHi == hi * Quantum - q * 10 ^ f
    IN CASE okLo /\ okHi ->
               IF dLo < dHi \/ (dLo = dHi /\ lo % 2 = 0) THEN lo ELSE hi
         [] okLo -> lo
         [] okHi -> hi
         [] OTHER -> -1

\* the digits of repr(float) for a finite q > 0: the shortest decimal that
\* reads back as q, tried from f fractional digits on
RECURSIVE ShortestRepr(_, _)
ShortestRepr(q, f) ==
    LET c == RoundTrip(q, f)
    IN IF c < 0 THEN ShortestRepr(q, f + 1)
       ELSE StrNat(c \div 10 ^ f) \o <<".">> \o Padded(c % 10 ^ f, f)

\* str(value) of a float
str_float(a) ==
    CASE a.k = "nan" -> <<"n", "a", "n">>
      [] a.k = "inf" ->
            IF a.q < 0 THEN <<"-", "i", "n", "f">> ELSE <<"i", "n", "f">>
      [] a.q % Quantum = 0 -> StrInt(a.q \div Quantum) \o <<".", "0">>
      [] OTHER ->
            (IF a.q < 0 THEN <<"-">> ELSE <<>>) \o ShortestRepr(Abs(a.q), 1)

_format_number(value) ==
    IF is_integer(value) THEN StrInt(value.q \div Quantum)
    ELSE str_float(value)

(***************************************************************************)
(* The window: the display buffer and what the last callback did.          *)
(***************************************************************************)
VARIABLES
    display_var,   \* the text of the display (a tk.StringVar)
    last,          \* the label of the last callback run
    invoked,       \* whether that callback called _safe_evaluate
    expression,    \* the text it handed to _safe_evaluate (<<>> if none)
    alert,         \* the message of the error box it showed ("" if none)
    raised         \* the exception that escaped it ("" if none)

vars == <<display_var, last, invoked, expression, alert, raised>>

\* the keys of the button grid pressed: digits and the four operators
AppendKeys == {"0", "9", "+", "-", "*", "/"}

\* the keys pressed where the user also types into the display
EntryKeys == {"1", ".", "-", "*"}

\* what the user types into the display, an editable tk.Entry
TypedTexts == {<<"(">>, <<")">>, <<" ">>, <<"T", "r", "u", "e">>}

\* the keys pressed, and the texts typed, where brackets are tried
ParenKeys == {"1", "2", "-", "*"}

ParenTexts == {<<"(">>, <<")">>}

Init ==
    /\ display_var = <<>>
    /\ last = "init"
    /\ invoked = FALSE
    /\ expression = <<>>
    /\ alert = ""
    /\ raised = ""

\* a callback that returns without evaluating: no error box, no exception
Quiet ==
    /\ invoked' = FALSE
    /\ expression' = <<>>
    /\ alert' = ""
    /\ raised' = ""

_append(char) ==
    /\ last' = "append"
    /\ display_var' = display_var \o <<char>>
    /\ Quiet

\* text typed at the end of the display
EntryInsert(text) ==
    /\ last' = "type"
    /\ display_var' = display_var \o text
    /\ Quiet

_clear ==
    /\ last' = "C"
    /\ display_var' = <<>>
    /\ Quiet

_backspace ==
    /\ last' = "DEL"
    /\ display_var' = IF display_var # <<>>
                      THEN SubSeq(display_var, 1, Len(display_var) - 1)
                      ELSE display_var
    /\ Quiet

\* the error box shows the title "Error" where it should show the message
EvaluatedTitleShown(current, value) ==
    /\ invoked' = TRUE
    /\ expression' = current
    /\ alert' = IF value.exc = "ValueError" THEN "Error" ELSE ""
    /\ raised' = IF value.exc \notin {"", "ValueError"} THEN value.exc ELSE ""

\* What a callback does with the evaluator's answer: a ValueError is shown
\* in an error box and the callback returns; any other exception escapes
\* the callback (Tk reports it and goes on); a value is passed on.
Evaluated(current, value) ==
    /\ invoked' = TRUE
    /\ expression' = current
    /\ alert' = IF value.exc = "ValueError" THEN value.msg ELSE ""
    /\ raised' = IF value.exc \notin {"", "ValueError"} THEN value.exc ELSE ""

_negate ==
    LET current == display_var
        value == _safe_evaluate(current)
    IN /\ last' = "+/-"
       /\ IF current = <<>>
          THEN Quiet /\ UNCHANGED display_var
          ELSE /\ Evaluated(current, value)
               /\ display_var' = IF value.exc # "" THEN display_var
                                 ELSE _format_number(neg(value.v))

_percent ==
    LET current == display_var
        value == _safe_evaluate(current)
    IN /\ last' = "%"
       /\ IF current = <<>>
          THEN Quiet /\ UNCHANGED display_var
          ELSE /\ Evaluated(current, value)
               /\ display_var' =
                     IF value.exc # "" THEN display_var
                     ELSE _format_number(truediv(value.v, float(PyInt(100)).v))

\* "=" without the test for an empty display
_calculate_unguarded ==
    LET result == _safe_evaluate(display_var)
    IN /\ last' = "="
       /\ Evaluated(display_var, result)
       /\ display_var' = IF result.exc # "" THEN display_var
                         ELSE _format_number(result.v)

_calculate ==
    LET expr == display_var
        result == _safe_evaluate(expr)
    IN /\ last' = "="
       /\ IF expr = <<>>
          THEN Quiet /\ UNCHANGED display_var
          ELSE /\ Evaluated(expr, result)
               /\ display_var' = IF result.exc # "" THEN display_var
                                 ELSE _format_number(result.v)

\* whether text still fits a display of at most n characters
Fits(text, n) == Len(display_var) + Len(text) <= n

\* The button grid, every callback.
Next ==
    \/ \E char \in AppendKeys : Fits(<<char>>, MaxLen) /\ _append(char)
    \/ _clear
    \/ _backspace
    \/ _negate
    \/ _percent
    \/ _calculate

Spec == Init /\ [][Next]_vars

\* The button grid with longer texts, evaluated by "=".
NextArith ==
    \/ \E char \in AppendKeys : Fits(<<char>>, MaxText) /\ _append(char)
    \/ _clear
    \/ _backspace
    \/ _calculate

SpecArith == Init /\ [][NextArith]_vars

\* Keys and typed text (blanks, brackets, a name), evaluated by "=".
NextEntry ==
    \/ \E char \in EntryKeys : Fits(<<char>>, MaxText) /\ _append(char)
    \/ \E text \in TypedTexts : Fits(text, MaxText) /\ EntryInsert(text)
    \/ _clear
    \/ _backspace
    \/ _calculate

SpecEntry == Init /\ [][NextEntry]_vars

\* Keys and typed brackets, evaluated by "=".
NextParens ==
    \/ \E char \in ParenKeys : Fits(<<char>>, MaxText) /\ _append(char)
    \/ \E text \in ParenTexts : Fits(text, MaxText) /\ EntryInsert(text)
    \/ _clear
    \/ _backspace
    \/ _calculate

SpecParens == Init /\ [][NextParens]_vars

(***************************************************************************)
(* The grammar of the specification, read off the characters of a text:    *)
(*     expr := term (('+'|'-') term)*      term := factor (('*'|'/') factor)* *)
(*     factor := ('+'|'-')? number                                         *)
(* evaluated from left to right as it is recognised.  With parens, a       *)
(* factor may also be ('+'|'-')? '(' expr ')'.  A reading is               *)
(* [ok, next, r]: next the first character not read, r what the text read  *)
(* so far evaluates to.                                                    *)
(***************************************************************************)
RefFail == [ok |-> FALSE, next |-> 0, r |-> Returns(NaN)]

RefOk(next, r) == [ok |-> TRUE, next |-> next, r |-> r]

\* number: digits, with at most one decimal point among them; an integer
\* numeral other than zero does not start with 0
RefNumber(s, i) ==
    LET e == DigitsEnd(s, i)
        point == At(s, e) = "."
        e2 == IF point THEN DigitsEnd(s, e + 1) ELSE e
        whole == SubSeq(s, i, e - 1)
        frac == IF point THEN SubSeq(s, e + 1, e2 - 1) ELSE <<>>
    IN CASE Len(whole) + Len(frac) = 0 -> RefFail
         [] ~point /\ Len(whole) > 1 /\ whole[1] = "0" /\ IntOf(whole) # 0 ->
               RefFail
         [] point -> RefOk(e2, Returns(FloatLiteral(whole \o frac, Len(frac))))
         [] OTHER -> RefOk(e2, float(PyInt(IntOf(whole))))

\* the sign applied to what was read after it
RefSigned(sign, f) ==
    IF ~f.ok THEN RefFail
    ELSE RefOk(f.next, IF sign = "-" /\ f.r.exc = "" THEN Returns(neg(f.r.v))
                       ELSE f.r)

\* l op r, the left operand's failure coming first
RefApply(op, l, r) ==
    IF ~l.ok \/ ~r.ok THEN RefFail
    ELSE RefOk(r.next,
               CASE l.r.exc # "" -> l.r
                 [] r.r.exc # "" -> r.r
                 [] op = "+" -> Returns(add(l.r.v, r.r.v))
                 [] op = "-" -> Returns(sub(l.r.v, r.r.v))
                 [] op = "*" -> Returns(mul(l.r.v, r.r.v))
                 [] OTHER ->
                       IF IsZero(r.r.v) THEN ValueError("Cannot divide by zero")
                       ELSE Returns(truediv(l.r.v, r.r.v)))

\* the ')' that closes the expression read after a '('
RefClosed(s, e) ==
    IF e.ok /\ At(s, e.next) = ")" THEN RefOk(e.next + 1, e.r) ELSE RefFail

RECURSIVE RefSum(_, _, _), RefSumRest(_, _, _), RefTerm(_, _, _)
RECURSIVE RefTermRest(_, _, _), RefFactor(_, _, _), RefUnsigned(_, _, _)

RefUnsigned(s, i, parens) ==
    IF parens /\ At(s, i) = "(" THEN RefClosed(s, RefSum(s, i + 1, parens))
    ELSE RefNumber(s, i)

RefFactor(s, i, parens) ==
    LET signed == At(s, i) \in {"+", "-"}
    IN RefSigned(IF signed THEN At(s, i) ELSE "+",
                 RefUnsigned(s, IF signed THEN i + 1 ELSE i, parens))

RefTermRest(s, l, parens) ==
    IF l.ok /\ At(s, l.next) \in {"*", "/"}
    THEN RefTermRest(s, RefApply(At(s, l.next), l,
                                 RefFactor(s, l.next + 1, parens)), parens)
    ELSE l

RefTerm(s, i, parens) == RefTermRest(s, RefFactor(s, i, parens), parens)

RefSumRest(s, l, parens) ==
    IF l.ok /\ At(s, l.next) \in {"+", "-"}
    THEN RefSumRest(s, RefApply(At(s, l.next), l,
                                RefTerm(s, l.next + 1, parens)), parens)
    ELSE l

RefSum(s, i, parens) == RefSumRest(s, RefTerm(s, i, parens), parens)

RefWhole(s, e) == IF e.ok /\ e.next = Len(s) + 1 THEN e ELSE RefFail

\* the whole text read as one expression
Reference(s, parens) == RefWhole(s, RefSum(s, 1, parens))

\* the text without its leading and trailing blanks
RECURSIVE Strip(_)
Strip(s) ==
    CASE s = <<>> -> s
      [] s[1] = " " -> Strip(SubSeq(s, 2, Len(s)))
      [] s[Len(s)] = " " -> Strip(SubSeq(s, 1, Len(s) - 1))
      [] OTHER -> s

\* how many times the character c occurs in s
Count(s, c) == Cardinality({i \in 1..Len(s) : s[i] = c})

\* the callbacks that evaluate the display
Evaluators == {"=", "+/-", "%"}

\* the last callback evaluated the display and got a value
GotValue == invoked /\ alert = "" /\ raised = ""

\* the last callback did with the answer r of the evaluator what "=" does:
\* a value replaces the display, a failure leaves it as it was
ShowsLikeEquals(r) ==
    CASE r.exc = "" ->
            display_var = _format_number(r.v) /\ alert = "" /\ raised = ""
      [] r.exc = "ValueError" ->
            display_var = expression /\ alert = r.msg /\ raised = ""
      [] OTHER -> display_var = expression /\ alert = "" /\ raised = r.exc

\* an optional '-' and then digits only
IsIntegerText(t) ==
    LET from == IF At(t, 1) = "-" THEN 2 ELSE 1
    IN from <= Len(t) /\ \A i \in from..Len(t) : IsDigit(t[i])

\* the text divides by a number that is zero, signed or not
DividesByZero(s) ==
    \E i \in 1..Len(s) :
        /\ s[i] = "/"
        /\ LET d == RefNumber(s, IF At(s, i + 1) \in {"+", "-"} THEN i + 2
                                 ELSE i + 1)
           IN d.ok /\ d.r.exc = "" /\ IsZero(d.r.v)

(***************************************************************************)
(* The claims.                                                             *)
(***************************************************************************)

\* C1: when "=", "+/-" or "%" evaluates a display that is not empty and the
\* evaluator fails with one of its errors, the error box carries the
\* evaluator's message and the display is exactly what it was before.
C1_ErrorShownDisplayKept ==
    (last \in Evaluators /\ invoked
        /\ _safe_evaluate(expression).exc = "ValueError")
    => /\ alert = _safe_evaluate(expression).msg
       /\ alert \in {"Invalid expression", "Cannot divide by zero",
                     "Only numbers allowed"}
       /\ raised = ""
       /\ display_var = expression
       /\ expression # <<>>

C1_Witness ==
    /\ last = "%"
    /\ display_var = <<"9", "/", "0">>
    /\ expression = display_var
    /\ alert = "Cannot divide by zero"

\* C2: every expression of the grammar that divides by a number that is
\* zero makes the evaluator fail with "Cannot divide by zero".
C2_ZeroDivisorFails ==
    (invoked /\ Reference(expression, FALSE).ok /\ DividesByZero(expression))
    => /\ _safe_evaluate(expression) = ValueError("Cannot divide by zero")
       /\ alert = "Cannot divide by zero"

\* C3: every text that the grammar (blanks around it apart) does not derive
\* makes the evaluator fail with "Invalid expression", and with nothing else.
C3_OutsideGrammarInvalid ==
    (invoked /\ ~Reference(Strip(expression), FALSE).ok)
    => /\ _safe_evaluate(expression) = ValueError("Invalid expression")
       /\ alert = "Invalid expression"
       /\ display_var = expression

C5_FormattedResult ==
    (last = "=" /\ GotValue)
    => LET v == _safe_evaluate(expression).v
       IN /\ display_var = _format_number(v)
          /\ IF v.k = "fin" /\ v.q % Quantum = 0
             THEN /\ IsIntegerText(display_var)
                  /\ display_var = StrInt(v.q \div Quantum)
             ELSE /\ ~IsIntegerText(display_var)
                  /\ _safe_evaluate(display_var) = Returns(v)

\* C6: "+/-" on an expression of value x leaves a display that evaluates to
\* -x, and a second "+/-" right after leaves the formatted text of x, which
\* evaluates to x.
C6_NegationInvolutive ==
    [][(last' = "+/-" /\ invoked' /\ alert' = "" /\ raised' = "")
       => /\ _safe_evaluate(display_var')
               = Returns(neg(_safe_evaluate(display_var).v))
          /\ (last = "+/-" /\ GotValue)
             => /\ display_var' = _format_number(_safe_evaluate(expression).v)
                /\ _safe_evaluate(display_var')
                     = Returns(_safe_evaluate(expression).v)]_vars

\* C7: blanks before and after an expression are accepted: "=" shows what it
\* shows for the expression without them.
C7_BlanksAround ==
    (last = "=" /\ invoked /\ Strip(expression) # expression
        /\ _safe_evaluate(Strip(expression)).exc = "")
    => /\ _safe_evaluate(expression) = _safe_evaluate(Strip(expression))
       /\ ShowsLikeEquals(_safe_evaluate(Strip(expression)))

\* C8: on every expression of the grammar the evaluator agrees with the
\* reading from left to right in which '*' and '/' bind tighter than '+'
\* and '-' and operators of one level group to the left.
C8_PrecedenceAndAssociativity ==
    (last = "=" /\ invoked /\ Reference(expression, FALSE).ok)
    => /\ _safe_evaluate(expression) = Reference(expression, FALSE).r
       /\ ShowsLikeEquals(Reference(expression, FALSE).r)

C8_Witness ==
    /\ last = "="
    /\ expression = <<"9", "-", "9", "-", "9">>
    /\ display_var = <<"-", "9">>

\* C9: "=" is idempotent: after an "=" that showed a value, an "=" right
\* after it succeeds too and leaves the display as it is.
C9_EqualsIdempotent ==
    [][(last = "=" /\ GotValue /\ last' = "=")
       => /\ invoked' /\ alert' = "" /\ raised' = ""
          /\ display_var' = display_var]_vars

\* C10: on an empty display "=", "+/-", "%" and backspace change nothing:
\* the display stays empty, the evaluator is not called and no error box is
\* shown, although the evaluator fails on the empty text.
C10_EmptyDisplayNoOp ==
    [][(display_var = <<>> /\ last' \in Evaluators \cup {"DEL"})
       => /\ display_var' = <<>>
          /\ ~invoked' /\ alert' = "" /\ raised' = ""
          /\ _safe_evaluate(display_var)
               = ValueError("Invalid expression")]_vars

C10_Witness ==
    /\ last = "+/-"
    /\ ~invoked
    /\ display_var = <<>>

====
